---- MODULE Spec2Model ----
(***************************************************************************)
(* Model of utils.py, the data-load helpers of the mind-body-learning      *)
(* Fitbit analysis: the exclusion filter and validator, the four           *)
(* measurement loaders and the roster loader.                              *)
(*                                                                         *)
(* A table (pd.DataFrame) is a record                                      *)
(*     [columns |-> sequence of column names,                              *)
(*      index   |-> sequence of row labels,                                *)
(*      rows    |-> sequence of rows, each a sequence of cells]            *)
(* with rows[r][c] the cell of row r in the column columns[c].  A column   *)
(* name is the sequence of its characters, so that str.replace can be      *)
(* modelled by what it does.  A cell is a tagged pair: Str(s), Num(n),     *)
(* Date(d) or NaN (np.nan / NaT, the missing value).                       *)
(***************************************************************************)
EXTENDS Integers, Sequences, FiniteSets, TLC

VARIABLES
    \* ---- the loaders (Spec) ----
    kind,          \* which dataset the file under test holds
    file,          \* what pd.read_csv / pd.read_excel parses from the path
    writeThrough,  \* does an inplace method on the Series df.loc[:, c] reach df:
                   \* TRUE with pandas before 3.0, FALSE with copy-on-write
    ret,           \* ret[exclude]: outcome of the loader call with that flag
    \* ---- the exclusion helpers called directly (SpecFilter) ----
    df,            \* argument table
    to_exclude,    \* argument collection of subject ids
    once,          \* remove_excluded_subjs(df, to_exclude)
    twice,         \* remove_excluded_subjs(once, to_exclude)
    checked,       \* outcome of check_subjects_removed(df, to_exclude)
    \* ---- the column renaming of load_roster (SpecRename) ----
    name,          \* a source column name
    order,         \* an order of the four single-character replacements
    step,          \* how many replacements have been applied
    cur,           \* name after `step` replacements in the code's order
    alt,           \* name after `step` replacements in `order`
    again          \* result of sanitizing the sanitized name once more

vars == <<kind, file, writeThrough, ret, df, to_exclude, once, twice, checked,
          name, order, step, cur, alt, again>>

loaderVars == <<kind, file, writeThrough, ret>>
filterVars == <<df, to_exclude, once, twice, checked>>
renameVars == <<name, order, step, cur, alt, again>>

-----------------------------------------------------------------------------
(* Bounds of the model *)

MaxRows == 2         \* rows of a file given to a loader
MaxFilterRows == 3   \* rows of a table given to the exclusion helpers
MaxNameLen == 3      \* characters of an enumerated column name

-----------------------------------------------------------------------------
(* Cells *)

Str(s) == <<"str", s>>
Num(n) == <<"num", n>>
Date(d) == <<"date", d>>
NaN == <<"nan", "">>

IsNum(c) == c[1] = "num"
IsStr(c) == c[1] = "str"

(* Generic sequence helpers *)

Range(s) == {s[i] : i \in 1..Len(s)}

RECURSIVE SeqsUpTo(_, _)
SeqsUpTo(S, n) ==
    IF n = 0 THEN {<<>>}
    ELSE LET shorter == SeqsUpTo(S, n - 1)
         IN  shorter \cup {Append(s, x) : s \in {t \in shorter : Len(t) = n - 1}, x \in S}

RECURSIVE Product(_)
\* all sequences q with q[i] \in doms[i]
Product(doms) ==
    IF doms = <<>> THEN {<<>>}
    ELSE {<<x>> \o rest : x \in Head(doms), rest \in Product(Tail(doms))}

RECURSIVE SumSeq(_)
SumSeq(s) == IF s = <<>> THEN 0 ELSE Head(s) + SumSeq(Tail(s))

\* positions of s, in increasing order, at which mask is TRUE
RECURSIVE MaskedFrom(_, _, _)
MaskedFrom(s, mask, i) ==
    IF i > Len(s) THEN <<>>
    ELSE (IF mask[i] THEN <<s[i]>> ELSE <<>>) \o MaskedFrom(s, mask, i + 1)

-----------------------------------------------------------------------------
(* Column names of the data files *)

subjectID == <<"s","u","b","j","e","c","t","I","D">>
dateTime == <<"d","a","t","e","T","i","m","e">>
bpm == <<"b","p","m">>
date == <<"d","a","t","e">>
startDateTime == <<"s","t","a","r","t","D","a","t","e","T","i","m","e">>
endDateTime == <<"e","n","d","D","a","t","e","T","i","m","e">>

(* Outcomes of a call *)

\* a returned table; checked: did check_subjects_removed run during the call
Ok(t, ran) == [status |-> "ok", df |-> t, checked |-> ran]
Raise(e) == [status |-> "raised", error |-> e]
NotCalled == [status |-> "not called"]

IsOk(r) == r.status = "ok"
IsRaised(r) == r.status = "raised"

-----------------------------------------------------------------------------
(* Table primitives of pandas used by utils.py *)

NRows(t) == Len(t.rows)

\* positions of the columns labelled c (labels need not be unique)
ColPos(t, c) == {i \in 1..Len(t.columns) : t.columns[i] = c}

HasCol(t, c) == ColPos(t, c) # {}

\* the position of a label that occurs (the first, when it occurs twice)
Pos(t, c) == CHOOSE i \in ColPos(t, c) : \A j \in ColPos(t, c) : i <= j

\* df[c] for a label that occurs once: the column as a sequence of cells
Col(t, c) == [r \in 1..NRows(t) |-> t.rows[r][Pos(t, c)]]

\* pd.Series.isin: the missing value matches the missing value
isin(v, values) == v \in values

\* df[mask]: the rows where mask holds, in order, with their index labels
BoolIndex(t, mask) ==
    [columns |-> t.columns,
     index |-> MaskedFrom(t.index, mask, 1),
     rows |-> MaskedFrom(t.rows, mask, 1)]

\* no table at all (a variable not yet assigned, a file that does not exist)
NoTable == [columns |-> <<>>, index |-> <<>>, rows |-> <<>>, absent |-> TRUE]

\* the default RangeIndex 0 .. n-1
RangeIndex(n) == [i \in 1..n |-> Num(i - 1)]

-----------------------------------------------------------------------------
(* Define excluded subjects *)

excluded_subjects ==
    {Str("MBL094"), Str("MBL011"), Str("MBL045"), Str("MBL052"), Str("MBL042"),
     Str("MBL016"), Str("MBL093"), Str("MBL066"), Str("MBL028"), Str("MBL059"),
     Str("MBL016"), Str("MBL023"), Str("MBL045"), Str("MBL059"), Str("MBL066"),
     Str("MBL048"), Str("MBL064")}

-----------------------------------------------------------------------------
(* Data load helpers *)

\* a variant whose mask is misaligned by one row: row r is judged by row r+1
remove_excluded_subjs_shifted(t, excl) ==
    BoolIndex(t, [r \in 1..NRows(t) |->
                    r = NRows(t) \/ ~isin(Col(t, subjectID)[r + 1], excl)])

\* a variant that returns the rows in reverse order
remove_excluded_subjs_reversed(t, excl) ==
    LET kept == BoolIndex(t, [r \in 1..NRows(t) |-> ~isin(Col(t, subjectID)[r], excl)])
        n == Len(kept.rows)
    IN  [columns |-> kept.columns,
         index |-> [i \in 1..n |-> kept.index[n + 1 - i]],
         rows |-> [i \in 1..n |-> kept.rows[n + 1 - i]]]

\* df[~df.subjectID.isin(to_exclude)]
remove_excluded_subjs(t, excl) ==
    BoolIndex(t, [r \in 1..NRows(t) |-> ~isin(Col(t, subjectID)[r], excl)])

\* a variant that asks whether all, not any, of the ids occur
check_subjects_removed_all(t, excl) ==
    \A e \in excl : isin(e, Range(Col(t, subjectID)))

\* TRUE iff check_subjects_removed raises:
\* pd.Series(list(to_exclude)).isin(df.subjectID).any()
check_subjects_removed(t, excl) ==
    \E e \in excl : isin(e, Range(Col(t, subjectID)))

-----------------------------------------------------------------------------
(* The exclusion helpers called directly (SpecFilter) *)

FilterIds == {Str("MBL094"), Str("MBL023"), Str("MBL001"), NaN}
ExcludeIds == {Str("MBL094"), Str("MBL023"), Str("MBL777"), NaN}

FilterTables ==
    {[columns |-> <<subjectID>>,
      index |-> RangeIndex(Len(ids)),
      rows |-> [r \in 1..Len(ids) |-> <<ids[r]>>]] : ids \in SeqsUpTo(FilterIds, MaxFilterRows)}

InitFilter ==
    /\ df \in FilterTables
    /\ to_exclude \in SUBSET ExcludeIds
    /\ once = NoTable
    /\ twice = NoTable
    /\ checked = "not run"
    \* the loaders and the renaming are not run
    /\ kind = "none"
    /\ file = NoTable
    /\ writeThrough = TRUE
    /\ ret = <<>>
    /\ name = <<>>
    /\ order = <<>>
    /\ step = 0
    /\ cur = <<>>
    /\ alt = <<>>
    /\ again = <<>>

CallRemove ==
    /\ once = NoTable
    /\ once' = remove_excluded_subjs(df, to_exclude)
    /\ UNCHANGED <<df, to_exclude, twice, checked>>

CallRemoveAgain ==
    /\ once # NoTable
    /\ twice = NoTable
    /\ twice' = remove_excluded_subjs(once, to_exclude)
    /\ UNCHANGED <<df, to_exclude, once, checked>>

CallCheck ==
    /\ checked = "not run"
    /\ checked' = IF check_subjects_removed(df, to_exclude) THEN "raised" ELSE "passed"
    /\ UNCHANGED <<df, to_exclude, once, twice>>

NextFilter ==
    \/ CallRemove /\ UNCHANGED <<loaderVars, renameVars>>
    \/ CallRemoveAgain /\ UNCHANGED <<loaderVars, renameVars>>
    \/ CallCheck /\ UNCHANGED <<loaderVars, renameVars>>

SpecFilter == InitFilter /\ [][NextFilter]_vars

-----------------------------------------------------------------------------
(* Column-name sanitization of load_roster *)

\* a variant that replaces the first occurrence only (str.replace(old, new, 1))
str_replace_first(s, old, new) ==
    [i \in 1..Len(s) |->
        IF s[i] = old /\ (\A j \in 1..(i - 1) : s[j] # old) THEN new ELSE s[i]]

\* x.replace(old, new) of Python for a one-character old: every occurrence
str_replace(s, old, new) ==
    [i \in 1..Len(s) |-> IF s[i] = old THEN new ELSE s[i]]

\* the characters replaced by the four df.rename calls, in the code's order
RenameOrder == <<" ", "?", "(", ")">>

\* the four df.rename(columns=lambda x: x.replace(c, "_")) calls on one name
sanitize(s) ==
    str_replace(str_replace(str_replace(str_replace(s, " ", "_"), "?", "_"), "(", "_"), ")", "_")

-----------------------------------------------------------------------------
(* Define the dates of assessments *)

Quiz(n) == <<"Q","u","i","z","_",n>>
Midterm(n) == <<"M","i","d","t","e","r","m","_",n>>

Quiz_9 == Quiz("9")
Final == <<"F","i","n","a","l">>
account_email == <<"a","c","c","o","u","n","t","_","e","m","a","i","l">>
lastname == <<"l","a","s","t","n","a","m","e">>
firstname == <<"f","i","r","s","t","n","a","m","e">>
overall_score == <<"o","v","e","r","a","l","l","_","s","c","o","r","e">>

assessment_dates ==
    << <<Quiz("1"), "2016-09-15">>,
       <<Quiz("2"), "2016-09-22">>,
       <<Quiz("3"), "2016-09-29">>,
       <<Midterm("1"), "2016-10-05">>,
       <<Quiz("4"), "2016-10-13">>,
       <<Quiz("5"), "2016-10-20">>,
       <<Quiz("6"), "2016-10-27">>,
       <<Midterm("2"), "2016-11-02">>,
       <<Quiz("7"), "2016-11-10">>,
       <<Quiz("8"), "2016-11-17">>,
       <<Midterm("3"), "2016-11-30">> >>

\* assessments = [j for j, _ in assessment_dates]
assessments == [i \in 1..Len(assessment_dates) |-> assessment_dates[i][1]]

-----------------------------------------------------------------------------
(* More table primitives *)

\* df.loc[:, c] = values: the cells of every column labelled c are replaced
SetCol(t, c, values) ==
    [t EXCEPT !.rows = [r \in 1..NRows(t) |->
        [p \in 1..Len(t.columns) |-> IF t.columns[p] = c THEN values[r] ELSE @[r][p]]]]

\* df.set_index(c, drop=False, inplace=True) for a column that exists
set_index(t, c) == [t EXCEPT !.index = Col(t, c)]

\* a variant of drop with errors='ignore': absent labels are skipped
df_drop_ignore(t, labels) ==
    LET keep == [p \in 1..Len(t.columns) |-> t.columns[p] \notin labels]
    IN  Ok([t EXCEPT !.columns = MaskedFrom(t.columns, keep, 1),
                     !.rows = [r \in 1..NRows(t) |-> MaskedFrom(t.rows[r], keep, 1)]], FALSE)

\* df.drop(labels, axis=1, inplace=True): raises if a label is absent, else
\* removes every column carrying one of the labels
df_drop(t, labels) ==
    IF \E c \in labels : ~HasCol(t, c) THEN Raise("KeyError: drop")
    ELSE LET keep == [p \in 1..Len(t.columns) |-> t.columns[p] \notin labels]
         IN  Ok([t EXCEPT !.columns = MaskedFrom(t.columns, keep, 1),
                          !.rows = [r \in 1..NRows(t) |-> MaskedFrom(t.rows[r], keep, 1)]],
                FALSE)

\* a variant that recodes the assessment columns only
df_replace_assessments_only(t, old, new) ==
    [t EXCEPT !.rows = [r \in 1..NRows(t) |->
        [p \in 1..Len(t.columns) |->
            IF @[r][p] = old /\ t.columns[p] \in Range(assessments) THEN new ELSE @[r][p]]]]

\* df.replace(to_replace=old, value=new, inplace=True): every cell of every
\* column; the index is not touched
df_replace(t, old, new) ==
    [t EXCEPT !.rows = [r \in 1..NRows(t) |->
        [p \in 1..Len(t.columns) |-> IF @[r][p] = old THEN new ELSE @[r][p]]]]

\* one df.rename(columns=lambda x: x.replace(old, "_"), inplace=True)
df_rename(t, old) ==
    [t EXCEPT !.columns = [p \in 1..Len(t.columns) |-> str_replace(@[p], old, "_")]]

\* a variant in which a missing value makes the whole sum missing (skipna=False)
row_sum_contagious(t, labels, r) ==
    LET ps == {p \in 1..Len(t.columns) : t.columns[p] \in Range(labels)}
        val(p) == IF IsNum(t.rows[r][p]) THEN t.rows[r][p][2] ELSE 0
        seq == [p \in 1..Len(t.columns) |-> IF p \in ps THEN val(p) ELSE 0]
    IN  IF \E p \in ps : ~IsNum(t.rows[r][p]) THEN NaN ELSE Num(SumSeq(seq))

\* df.loc[:, labels].sum(axis=1) for row r: the sum of the numeric cells of
\* the columns carrying one of the labels, a missing cell counting as 0
row_sum(t, labels, r) ==
    LET ps == {p \in 1..Len(t.columns) : t.columns[p] \in Range(labels)}
        val(p) == IF IsNum(t.rows[r][p]) THEN t.rows[r][p][2] ELSE 0
    IN  Num(SumSeq([p \in 1..Len(t.columns) |-> IF p \in ps THEN val(p) ELSE 0]))

\* df.loc[:, c] = values for a new label c: the column is appended
AppendCol(t, c, values) ==
    [t EXCEPT !.columns = Append(@, c),
              !.rows = [r \in 1..NRows(t) |-> Append(@[r], values[r])]]

-----------------------------------------------------------------------------
(* pd.to_datetime and to_datetime_inplace *)

\* the texts the parser understands, with the instant each denotes
\* (year, month, day, hour); any other text is refused
DateOf(s) ==
    CASE s = "2016-09-15" -> <<2016, 9, 15, 0>>
      [] s = "09/15/2016" -> <<2016, 9, 15, 0>>
      [] s = "2016-09-15 08:00:00" -> <<2016, 9, 15, 8>>
      [] s = "2016-09-14 23:00:00" -> <<2016, 9, 14, 23>>
      [] s = "2016-09-15 07:00:00" -> <<2016, 9, 15, 7>>
      [] OTHER -> <<>>

Parseable(c) == c = NaN \/ c[1] = "date" \/ (IsStr(c) /\ DateOf(c[2]) # <<>>)

\* pd.to_datetime of one cell: a missing value stays missing (NaT)
to_datetime(c) == IF IsStr(c) THEN Date(DateOf(c[2])) ELSE c

\* to_datetime_inplace(df, *columns): each column in turn; a missing column
\* or a text that is no date stops the call
RECURSIVE to_datetime_inplace(_, _)
to_datetime_inplace(t, columns) ==
    IF columns = <<>> THEN Ok(t, FALSE)
    ELSE LET c == Head(columns)
         IN  IF ~HasCol(t, c) THEN Raise("KeyError")
             ELSE IF \E r \in 1..NRows(t) : ~Parseable(Col(t, c)[r])
                  THEN Raise("ParserError")
             ELSE to_datetime_inplace(
                      SetCol(t, c, [r \in 1..NRows(t) |-> to_datetime(Col(t, c)[r])]),
                      Tail(columns))

-----------------------------------------------------------------------------
(* Data loaders *)

NoFile == NoTable

\* a variant that filters and validates whatever the flag says
exclusion_always(t, exclude) ==
    IF ~HasCol(t, subjectID) THEN Raise("AttributeError")
    ELSE LET kept == remove_excluded_subjs(t, excluded_subjects)
         IN  IF check_subjects_removed(kept, excluded_subjects)
             THEN Raise("Exception: Some subjects not excluded.")
             ELSE Ok(kept, TRUE)

\* the tail of every loader:
\*     if exclude:
\*         df = remove_excluded_subjs(df, excluded_subjects)
\*         check_subjects_removed(df, excluded_subjects)
\*     return df
exclusion(t, exclude) ==
    IF ~exclude THEN Ok(t, FALSE)
    ELSE IF ~HasCol(t, subjectID) THEN Raise("AttributeError")
    ELSE LET kept == remove_excluded_subjs(t, excluded_subjects)
         IN  IF check_subjects_removed(kept, excluded_subjects)
             THEN Raise("Exception: Some subjects not excluded.")
             ELSE Ok(kept, TRUE)

ZeroToNaN(c) == IF c = Num(0) THEN NaN ELSE c

\* df.loc[:, 'bpm'].replace(0, np.nan, inplace=True): the replacement is made
\* in the Series that df.loc returns; whether df sees it depends on whether
\* that Series writes through to df (reach), which pandas does not promise
replace_bpm_inplace(t, reach) ==
    IF reach THEN SetCol(t, bpm, [r \in 1..NRows(t) |-> ZeroToNaN(Col(t, bpm)[r])]) ELSE t

load_heart_rate_data(f, exclude, reach) ==
    IF f = NoFile THEN Raise("IOError")
    ELSE IF ~HasCol(f, bpm) THEN Raise("KeyError")
    ELSE LET d == to_datetime_inplace(replace_bpm_inplace(f, reach), <<dateTime>>)
         IN  IF IsRaised(d) THEN d ELSE exclusion(d.df, exclude)

load_mult_measures_data(f, exclude) ==
    IF f = NoFile THEN Raise("IOError")
    ELSE LET d == to_datetime_inplace(f, <<dateTime>>)
         IN  IF IsRaised(d) THEN d ELSE exclusion(d.df, exclude)

load_resting_heart_rate_data(f, exclude) ==
    IF f = NoFile THEN Raise("IOError")
    ELSE LET d == to_datetime_inplace(f, <<date>>)
         IN  IF IsRaised(d) THEN d ELSE exclusion(d.df, exclude)

load_sleep_data(f, exclude) ==
    IF f = NoFile THEN Raise("IOError")
    ELSE LET d == to_datetime_inplace(f, <<date, startDateTime, endDateTime>>)
         IN  IF IsRaised(d) THEN d ELSE exclusion(set_index(d.df, date), exclude)

\* The steps of load_roster in the code's order.  df.loc[:, assessments] is
\* taken to raise KeyError when an assessment column is missing.
load_roster(f, exclude) ==
    IF f = NoFile THEN Raise("IOError")
    ELSE IF ~HasCol(f, subjectID) THEN Raise("KeyError: set_index")
    ELSE LET indexed == set_index(f, subjectID)
             renamed == df_rename(df_rename(df_rename(df_rename(indexed, " "), "?"), "("), ")")
             d1 == df_drop(renamed, {account_email, lastname, firstname})
         IN  IF IsRaised(d1) THEN d1
             ELSE LET d2 == df_drop(df_replace(d1.df, Str("X"), NaN), {Quiz_9, Final})
                  IN  IF IsRaised(d2) THEN d2
                      ELSE IF \E i \in 1..Len(assessments) : ~HasCol(d2.df, assessments[i])
                           THEN Raise("KeyError: loc")
                      ELSE exclusion(
                               AppendCol(d2.df, overall_score,
                                   [r \in 1..NRows(d2.df) |-> row_sum(d2.df, assessments, r)]),
                               exclude)

-----------------------------------------------------------------------------
(* The renaming of one column name, one replacement at a time (SpecRename) *)

Chars == {" ", "?", "(", ")", "_", "a"}

ExamRetake == <<"E","x","a","m"," ","(","R","e","t","a","k","e",")","?">>

NameInputs == SeqsUpTo(Chars, MaxNameLen) \cup {ExamRetake}

Orders == {p \in [1..Len(RenameOrder) -> Range(RenameOrder)] :
              \A i, j \in 1..Len(RenameOrder) : i # j => p[i] # p[j]}

NoName == <<"none">>

InitRename ==
    /\ name \in NameInputs
    /\ order \in Orders
    /\ step = 0
    /\ cur = name
    /\ alt = name
    /\ again = NoName
    \* the loaders and the exclusion helpers are not run
    /\ kind = "none"
    /\ file = NoTable
    /\ writeThrough = TRUE
    /\ ret = <<>>
    /\ df = NoTable
    /\ to_exclude = {}
    /\ once = NoTable
    /\ twice = NoTable
    /\ checked = "not run"

\* one df.rename call: its replacement applied to the name
RenameStep ==
    /\ step < Len(RenameOrder)
    /\ step' = step + 1
    /\ cur' = str_replace(cur, RenameOrder[step + 1], "_")
    /\ alt' = str_replace(alt, order[step + 1], "_")
    /\ UNCHANGED <<name, order, again>>

\* the four renames applied to an already renamed name
Resanitize ==
    /\ step = Len(RenameOrder)
    /\ again = NoName
    /\ again' = sanitize(cur)
    /\ UNCHANGED <<name, order, step, cur, alt>>

NextRename ==
    \/ RenameStep /\ UNCHANGED <<loaderVars, filterVars>>
    \/ Resanitize /\ UNCHANGED <<loaderVars, filterVars>>

SpecRename == InitRename /\ [][NextRename]_vars

-----------------------------------------------------------------------------
(* The files the loaders are run on *)

steps == <<"s","t","e","p","s">>
value == <<"v","a","l","u","e">>
notes == <<"n","o","t","e","s">>
account_email_spaced == <<"a","c","c","o","u","n","t"," ","e","m","a","i","l">>
Quiz_1_spaced == <<"Q","u","i","z"," ","1">>

SubjectCells == {Str("MBL094"), Str("MBL023"), Str("MBL001")}

\* the cells a column of a measurement file may hold
MeasureDomain(k, c) ==
    CASE c = subjectID -> SubjectCells
      [] c = dateTime -> {Str("2016-09-15 08:00:00"), Str("yesterday")}
      [] c = bpm -> {Num(0), Num(72), NaN}
      [] c = steps -> {Num(0), Num(5000)}
      [] c = date /\ k = "resting-heart-rate" -> {Str("2016-09-15"), Str("09/15/2016"), NaN}
      [] c = date /\ k = "sleep" -> {Str("2016-09-15"), Str("yesterday")}
      [] c = startDateTime -> {Str("2016-09-14 23:00:00"), NaN}
      [] c = endDateTime -> {Str("2016-09-15 07:00:00")}
      [] c = value -> {Num(60)}

\* the score a roster holds in an assessment column that is not varied
FixedScore(c) ==
    CASE c = Quiz("2") -> 2 [] c = Quiz("3") -> 3 [] c = Quiz("4") -> 4
      [] c = Quiz("5") -> 5 [] c = Quiz("6") -> 6 [] c = Quiz("7") -> 7
      [] c = Quiz("8") -> 8 [] c = Quiz_9 -> 9
      [] c = Midterm("1") -> 41 [] c = Midterm("2") -> 42 [] c = Midterm("3") -> 43
      [] c = Final -> 90

\* the cells a column of the roster spreadsheet may hold
RosterDomain(c) ==
    CASE c = subjectID -> {Str("MBL094"), Str("MBL001"), Str("X")}
      [] c = Quiz("1") -> {Num(10), Str("X"), NaN}
      [] c = Quiz_1_spaced -> {Num(7)}
      [] c \in {notes, ExamRetake} -> {Str("X"), Str("ok")}
      [] c \in {lastname, firstname} -> {Str("Doe")}
      [] c \in {account_email, account_email_spaced} -> {Str("doe@mit.edu")}
      [] OTHER -> {Num(FixedScore(c))}

Without(cols, c) == SelectSeq(cols, LAMBDA x : x # c)
Renamed(cols, old, new) == [p \in 1..Len(cols) |-> IF cols[p] = old THEN new ELSE cols[p]]

RosterColumns ==
    <<subjectID, lastname, firstname, account_email>> \o assessments
        \o <<Quiz_9, Final, notes>>

\* the column layouts of the roster spreadsheets tried
RosterLayouts ==
    { RosterColumns,
      Renamed(Renamed(Renamed(RosterColumns, account_email, account_email_spaced),
                      Quiz("1"), Quiz_1_spaced), notes, ExamRetake),
      Without(Without(RosterColumns, notes), lastname),
      Without(Without(RosterColumns, notes), Final),
      Without(Without(RosterColumns, notes), subjectID),
      Without(RosterColumns, notes) \o <<Quiz_1_spaced>> }

MeasureColumns(k) ==
    CASE k = "heart-rate" -> <<subjectID, dateTime, bpm>>
      [] k = "mult-measures" -> <<subjectID, dateTime, steps>>
      [] k = "resting-heart-rate" -> <<subjectID, date, value>>
      [] k = "sleep" -> <<subjectID, date, startDateTime, endDateTime>>

\* what pd.read_csv / pd.read_excel returns: the rows under a RangeIndex
Parsed(cols, rows) == [columns |-> cols, index |-> RangeIndex(Len(rows)), rows |-> rows]

\* filenames: the datasets
filenames == {"heart-rate", "mult-measures", "resting-heart-rate", "sleep", "roster"}

Files(k) ==
    {NoFile} \cup
    IF k = "roster"
    THEN UNION {{Parsed(cols, rows) :
                    rows \in SeqsUpTo(Product([p \in 1..Len(cols) |-> RosterDomain(cols[p])]),
                                      MaxRows)} : cols \in RosterLayouts}
    ELSE {Parsed(MeasureColumns(k), rows) :
             rows \in SeqsUpTo(Product([p \in 1..Len(MeasureColumns(k)) |->
                                           MeasureDomain(k, MeasureColumns(k)[p])]),
                               MaxRows)}

-----------------------------------------------------------------------------
(* The loaders run on a file, with and without exclusion (Spec) *)

Init ==
    /\ kind \in filenames
    /\ file \in Files(kind)
    \* read by load_heart_rate_data only
    /\ writeThrough \in (IF kind = "heart-rate" THEN BOOLEAN ELSE {TRUE})
    /\ ret = [exclude \in BOOLEAN |-> NotCalled]
    \* the exclusion helpers and the renaming are not run on their own
    /\ df = NoTable
    /\ to_exclude = {}
    /\ once = NoTable
    /\ twice = NoTable
    /\ checked = "not run"
    /\ name = <<>>
    /\ order = <<>>
    /\ step = 0
    /\ cur = <<>>
    /\ alt = <<>>
    /\ again = <<>>

CallHeartRate ==
    \E exclude \in BOOLEAN :
        /\ kind = "heart-rate"
        /\ ret[exclude] = NotCalled
        /\ ret' = [ret EXCEPT ![exclude] = load_heart_rate_data(file, exclude, writeThrough)]
        /\ UNCHANGED <<kind, file, writeThrough>>

CallMultMeasures ==
    \E exclude \in BOOLEAN :
        /\ kind = "mult-measures"
        /\ ret[exclude] = NotCalled
        /\ ret' = [ret EXCEPT ![exclude] = load_mult_measures_data(file, exclude)]
        /\ UNCHANGED <<kind, file, writeThrough>>

CallRestingHeartRate ==
    \E exclude \in BOOLEAN :
        /\ kind = "resting-heart-rate"
        /\ ret[exclude] = NotCalled
        /\ ret' = [ret EXCEPT ![exclude] = load_resting_heart_rate_data(file, exclude)]
        /\ UNCHANGED <<kind, file, writeThrough>>

CallSleep ==
    \E exclude \in BOOLEAN :
        /\ kind = "sleep"
        /\ ret[exclude] = NotCalled
        /\ ret' = [ret EXCEPT ![exclude] = load_sleep_data(file, exclude)]
        /\ UNCHANGED <<kind, file, writeThrough>>

CallRoster ==
    \E exclude \in BOOLEAN :
        /\ kind = "roster"
        /\ ret[exclude] = NotCalled
        /\ ret' = [ret EXCEPT ![exclude] = load_roster(file, exclude)]
        /\ UNCHANGED <<kind, file, writeThrough>>

Next ==
    \/ CallHeartRate /\ UNCHANGED <<filterVars, renameVars>>
    \/ CallMultMeasures /\ UNCHANGED <<filterVars, renameVars>>
    \/ CallRestingHeartRate /\ UNCHANGED <<filterVars, renameVars>>
    \/ CallSleep /\ UNCHANGED <<filterVars, renameVars>>
    \/ CallRoster /\ UNCHANGED <<filterVars, renameVars>>

Spec == Init /\ [][Next]_vars

-----------------------------------------------------------------------------
(* Properties of the exclusion helpers *)

\* rows of df that remove_excluded_subjs has to keep
Kept == {r \in 1..NRows(df) : df.rows[r][1] \notin to_exclude}

\* the i-th kept row of df, counting in df's order
NthKept(i) == CHOOSE k \in Kept : Cardinality({j \in Kept : j < k}) = i - 1

\* C2: remove_excluded_subjs(df, to_exclude) returns exactly the rows of df
\* whose subjectID is not a member of to_exclude, in df's relative order (each
\* with its index label and columns), and with an empty to_exclude it returns
\* the rows of df.
C2_FilterKeepsExactlyNonExcluded ==
    once # NoTable =>
        /\ once.columns = df.columns
        /\ Len(once.rows) = Cardinality(Kept)
        /\ Len(once.index) = Cardinality(Kept)
        /\ \A i \in 1..Len(once.rows) :
              /\ once.rows[i] = df.rows[NthKept(i)]
              /\ once.index[i] = df.index[NthKept(i)]
        /\ (to_exclude = {} => once.rows = df.rows /\ once.index = df.index)

\* C2 witness: a call that removed a row from between two rows it kept
C2_Witness ==
    /\ once # NoTable
    /\ NRows(df) = 3
    /\ Kept = {1, 3}
    /\ once.rows[1] # once.rows[2]

\* C3: check_subjects_removed(df, to_exclude) raises if and only if at least
\* one member of to_exclude occurs in df.subjectID.
C3_CheckRaisesIffExcludedPresent ==
    checked # "not run" =>
        (checked = "raised" <=>
            \E r \in 1..NRows(df) : df.rows[r][1] \in to_exclude)

\* C3 witness: the check raised although one excluded id is absent from the
\* table and one id of the table is not excluded
C3_Witness ==
    /\ checked = "raised"
    /\ \E e \in to_exclude : \A r \in 1..NRows(df) : df.rows[r][1] # e
    /\ \E r \in 1..NRows(df) : df.rows[r][1] \notin to_exclude

\* C4: filtering an already filtered table with the same exclusion set gives
\* the same rows in the same order.
C4_FilterIdempotent ==
    twice # NoTable => twice = once

\* C4 witness: the first pass removed a row and kept one, then a second pass ran
C4_Witness ==
    /\ twice # NoTable
    /\ Len(once.rows) < NRows(df)
    /\ Len(once.rows) >= 2

-----------------------------------------------------------------------------
(* Properties of the column-name sanitization *)

Special == {" ", "?", "(", ")"}

\* the name with each occurrence of a special character turned into "_"
Underscored(s) == [i \in 1..Len(s) |-> IF s[i] \in Special THEN "_" ELSE s[i]]

\* C8: after the four renames a column name is the source name with each
\* space, "?", "(" and ")" replaced by one underscore ("Exam (Retake)?" gives
\* "Exam__Retake__"), whatever the order of the four replacements, and
\* sanitizing the sanitized name leaves it unchanged.
C8_SanitizeUnderscoresOrderFreeIdempotent ==
    step = Len(RenameOrder) =>
        /\ cur = Underscored(name)
        /\ alt = cur
        /\ sanitize(name) = cur
        /\ (again # NoName => again = cur)
        /\ (name = ExamRetake =>
               cur = <<"E","x","a","m","_","_","R","e","t","a","k","e","_","_">>)

\* C8 witness: "Exam (Retake)?" renamed in an order other than the code's,
\* then sanitized again
C8_Witness ==
    /\ step = Len(RenameOrder)
    /\ name = ExamRetake
    /\ order # RenameOrder
    /\ again # NoName

-----------------------------------------------------------------------------
(* Properties of the loaders *)

PiiAndPending == {account_email, lastname, firstname, Quiz_9, Final}

\* the subject id the file holds in row r
SrcSubject(r) == file.rows[r][CHOOSE p \in 1..Len(file.columns) : file.columns[p] = subjectID]

\* the rows of the file a call with the given flag has to return
SrcKept(exclude) ==
    IF exclude THEN {r \in 1..NRows(file) : SrcSubject(r) \notin excluded_subjects}
    ELSE 1..NRows(file)

\* the row of the file that row i of the returned table comes from
SrcRow(exclude, i) ==
    CHOOSE k \in SrcKept(exclude) : Cardinality({j \in SrcKept(exclude) : j < k}) = i - 1

\* the columns of the roster file that are not dropped
SrcColsKept == {p \in 1..Len(file.columns) : Underscored(file.columns[p]) \notin PiiAndPending}

\* the total of the numeric cells of row k of the roster file in the columns
\* that are assessment columns once renamed
SrcTotal(k) ==
    SumSeq([p \in 1..Len(file.columns) |->
               IF Underscored(file.columns[p]) \in Range(assessments) /\ IsNum(file.rows[k][p])
               THEN file.rows[k][p][2] ELSE 0])

\* C1: a loader called with exclude=True returns a table whose subjectID
\* column holds no excluded subject, and the check_subjects_removed call that
\* follows remove_excluded_subjs runs and never raises.
C1_ExcludedSubjectsAbsent ==
    /\ ~(IsRaised(ret[TRUE]) /\ ret[TRUE].error = "Exception: Some subjects not excluded.")
    /\ IsOk(ret[TRUE]) =>
          /\ ret[TRUE].checked
          /\ \A r \in 1..NRows(ret[TRUE].df) : \A p \in 1..Len(ret[TRUE].df.columns) :
                ret[TRUE].df.columns[p] = subjectID =>
                    ret[TRUE].df.rows[r][p] \notin excluded_subjects

\* C1 witness: a roster with an excluded and a retained subject, loaded with
\* exclude=True
C1_Witness ==
    /\ kind = "roster"
    /\ IsOk(ret[TRUE])
    /\ NRows(file) = 2
    /\ SrcSubject(1) \in excluded_subjects
    /\ SrcSubject(2) \notin excluded_subjects
    /\ NRows(ret[TRUE].df) = 1

\* C5: in the table load_heart_rate_data returns, a row whose source bpm was 0
\* has bpm missing, a row whose source bpm was not 0 keeps its bpm, and the
\* subjectID column is as in the source.
C5_ZeroBpmBecomesMissing ==
    \A e \in BOOLEAN :
        (kind = "heart-rate" /\ IsOk(ret[e])) =>
            \A i \in 1..NRows(ret[e].df) :
                LET src == file.rows[SrcRow(e, i)]
                    got == ret[e].df.rows[i]
                    pb == Pos(file, bpm)
                    ps == Pos(file, subjectID)
                IN  /\ (src[pb] = Num(0) => got[pb] = NaN)
                    /\ (src[pb] # Num(0) => got[pb] = src[pb])
                    /\ got[ps] = src[ps]

\* The statement of C5 restricted to the runs in which the inplace replace
\* reaches df (pandas before 3.0, where df.loc[:, 'bpm'] is the cached column)
ZeroBpmBecomesMissingWhenWrittenThrough == writeThrough => C5_ZeroBpmBecomesMissing

\* C5 witness: a heart-rate file with a bpm of 0 has been loaded
ZeroBpmLoaded ==
    /\ kind = "heart-rate"
    /\ IsOk(ret[FALSE])
    /\ \E i \in 1..NRows(file) : file.rows[i][Pos(file, bpm)] = Num(0)

\* C6: overall_score of every row load_roster returns is the sum of the row's
\* values in the columns named in assessment_dates (11 names, Quiz_9 and Final
\* not among them), a missing value or an "X" counting as 0.
C6_OverallScoreSumsAssessments ==
    /\ Cardinality(Range(assessments)) = 11
    /\ Quiz_9 \notin Range(assessments)
    /\ Final \notin Range(assessments)
    /\ \A e \in BOOLEAN :
          (kind = "roster" /\ IsOk(ret[e])) =>
              /\ Cardinality(ColPos(ret[e].df, overall_score)) = 1
              /\ \A i \in 1..NRows(ret[e].df) :
                    ret[e].df.rows[i][Pos(ret[e].df, overall_score)]
                        = Num(SrcTotal(SrcRow(e, i)))

\* C6 witness: a returned row whose Quiz_1 was "X" in the spreadsheet and
\* whose overall_score is the total of its ten other assessments
C6_Witness ==
    /\ kind = "roster"
    /\ IsOk(ret[FALSE])
    /\ \E i \in 1..NRows(file) :
          /\ HasCol(file, Quiz("1"))
          /\ file.rows[i][Pos(file, Quiz("1"))] = Str("X")
          /\ ret[FALSE].df.rows[i][Pos(ret[FALSE].df, overall_score)] = Num(161)

\* C7: the table load_roster returns holds "X" in no cell of any column; a
\* source cell equal to "X" is missing in the result and any other source
\* cell of a retained column is returned as it was.
C7_NoXInRoster ==
    \A e \in BOOLEAN :
        (kind = "roster" /\ IsOk(ret[e])) =>
            LET t == ret[e].df
                kept == SrcColsKept
            IN  /\ Len(t.columns) = Cardinality(kept) + 1
                /\ \A i \in 1..NRows(t) :
                      LET src == file.rows[SrcRow(e, i)]
                      IN  /\ \A q \in 1..Len(t.columns) : t.rows[i][q] # Str("X")
                          \* column p of the file is the column of the result
                          \* numbered by the retained columns up to p
                          /\ \A p \in kept :
                                t.rows[i][Cardinality({j \in kept : j <= p})]
                                    = IF src[p] = Str("X") THEN NaN ELSE src[p]

\* C7 witness: a returned row whose subjectID and whose notes column were "X"
\* in the spreadsheet
C7_Witness ==
    /\ kind = "roster"
    /\ IsOk(ret[TRUE])
    /\ HasCol(file, notes)
    /\ \E i \in 1..NRows(ret[TRUE].df) :
          /\ SrcSubject(SrcRow(TRUE, i)) = Str("X")
          /\ file.rows[SrcRow(TRUE, i)][Pos(file, notes)] = Str("X")
          /\ ret[TRUE].df.rows[i][Pos(ret[TRUE].df, subjectID)] = NaN

\* C9: load_roster fails whenever one of account_email, lastname, firstname,
\* Quiz_9, Final is absent from the renamed columns, a drop fails only then
\* (so "account email" counts as present), and a returned table has none of
\* the five columns.
C9_DropsNeedSanitizedColumns ==
    \A e \in BOOLEAN :
        (kind = "roster" /\ ret[e] # NotCalled /\ file # NoFile) =>
            LET absent == {c \in PiiAndPending :
                              \A p \in 1..Len(file.columns) : Underscored(file.columns[p]) # c}
            IN  /\ (absent # {} => IsRaised(ret[e]))
                /\ ((IsRaised(ret[e]) /\ ret[e].error = "KeyError: drop") => absent # {})
                /\ (IsOk(ret[e]) => \A c \in PiiAndPending : ~HasCol(ret[e].df, c))

\* C9 witness: a spreadsheet whose e-mail column is named "account email" is
\* loaded and the column is gone
C9_Witness ==
    /\ kind = "roster"
    /\ file # NoFile
    /\ account_email_spaced \in Range(file.columns)
    /\ IsOk(ret[FALSE])
    /\ NRows(ret[FALSE].df) > 0
    /\ Len(ret[FALSE].df.columns) = Len(file.columns) - 4

\* C10: for each loader the call with exclude=True returns
\* remove_excluded_subjs of what the call with exclude=False returns (and
\* fails where that call fails); with exclude=False no row is removed and
\* check_subjects_removed is not run.
C10_ExcludeFlagOnlyRemovesRows ==
    (ret[TRUE] # NotCalled /\ ret[FALSE] # NotCalled) =>
        IF IsOk(ret[FALSE])
        THEN /\ ~ret[FALSE].checked
             /\ NRows(ret[FALSE].df) = NRows(file)
             /\ IsOk(ret[TRUE])
             /\ ret[TRUE].df = remove_excluded_subjs(ret[FALSE].df, excluded_subjects)
        ELSE ret[TRUE] = ret[FALSE]

\* C10 witness: both calls made on a roster of which exclusion removes a row
\* and keeps a row
C10_Witness ==
    /\ kind = "roster"
    /\ IsOk(ret[TRUE])
    /\ IsOk(ret[FALSE])
    /\ NRows(ret[TRUE].df) = 1
    /\ NRows(ret[FALSE].df) = 2
    /\ ret[TRUE].df.rows[1] = ret[FALSE].df.rows[2]

====
